---- MODULE Spec2Model ----
(***************************************************************************)
(* Account / invitation lifecycle and credential / session subsystem of    *)
(* the users-service (authenticationService, AuthMiddleware,               *)
(* RoleAuthorization) over the relational store of queries.sql.            *)
(*                                                                         *)
(* Every request is served by a goroutine of its own; a request slot of    *)
(* Procs is one such goroutine.  A handler that issues several SQL         *)
(* statements is split at the statements: one action per statement, with   *)
(* the row it loaded kept in the slot (u, o) between them.  Only SignUp    *)
(* runs inside a database transaction.                                     *)
(*                                                                         *)
(* Encodings                                                               *)
(*   account_id  the 16-digit string Sprintf("%016d", 1100000000000000+k)  *)
(*               is carried as the offset k (k >= 1)                       *)
(*   time        whole hours since start                                   *)
(*   token       NullToken = SQL NULL, EmptyToken = the empty string,      *)
(*               1, 2, ... = distinct random tokens                        *)
(*   password    plaintexts are small integers, TempPassword the random    *)
(*               temporary credential of an invitation; Hash and           *)
(*               CompareHashAndPassword model bcrypt                       *)
(***************************************************************************)
EXTENDS Integers, FiniteSets, Sequences, TLC

VARIABLES orgs, users, proc, sessions, now, nextTok, rotations, revoked, redeemed

vars == <<orgs, users, proc, sessions, now, nextTok, rotations, revoked, redeemed>>

----------------------------------------------------------------------------
(* Bounds of the exploration *)

NumProcs == 2
MaxOrgs == 2
MaxUsers == 3
MaxTokens == 2
MaxSessions == 1
MaxInvites == 1
MaxRotations == 2
MaxTime == 49
TickHours == 49

Procs == 1..NumProcs
\* identifiers of user rows and of tokens over all the specifications
MaxIds == MaxUsers + MaxInvites + 1
UserIds == 1..MaxIds

----------------------------------------------------------------------------
(* Program constants *)

\* lastID when the organizations table is empty, as an offset from itself
LastIDDefault == 0
\* time.Now().Add(1 * time.Hour): SignUp, ResendVerificationEmail, ForgotPassword
HourTTL == 1
\* time.Now().Add(48 * time.Hour): InviteUser
InviteTTL == 48
\* time.Now().Add(24 * time.Hour): GenerateJWT
SessionTTL == 24
\* users.token_version INT DEFAULT 1
InitialTokenVersion == 1

NullToken == 0
EmptyToken == -1
NullTime == -1
NullId == 0
TempPassword == 0

Roles == {"owner", "maintainer", "member"}

\* strings.ToLower / LOWER(email) on the emails the model uses
Lower(e) == IF e = "A@x" THEN "a@x" ELSE e

\* bcrypt.GenerateFromPassword: a one-way image of the plaintext
Hash(pw) == 100 + pw

\* bcrypt.CompareHashAndPassword(hash, pw) == nil
CompareHashAndPassword(h, pw) == h = 100 + pw

----------------------------------------------------------------------------
(* Rows and request slots *)

NoUser == [id |-> NullId, org |-> NullId, name |-> "", email |-> "", password |-> -1,
           role |-> "", status |-> "", invited_by |-> NullId,
           token |-> NullToken, expires |-> NullTime, tv |-> 0]

NoOrg == [id |-> NullId, name |-> "", account_id |-> 0, created_by |-> NullId, status |-> ""]

NoSession == [uid |-> NullId, org |-> NullId, account_id |-> 0, role |-> "", tv |-> 0, exp |-> NullTime]

Idle == [pc |-> "idle", op |-> "", res |-> "", tok |-> NullToken, acct |-> 0, email |-> "",
         name |-> "", oname |-> "", pw |-> -1, npw |-> -1, role |-> "", sess |-> NoSession,
         u |-> NoUser, o |-> NoOrg, exp |-> NullTime, tokfail |-> FALSE, failed |-> FALSE,
         mailed |-> NullToken, mailfail |-> FALSE]

\* emailSender.SendEmail was called with a link that carries token, and returned an
\* error or not; a slot whose handler called no SendEmail keeps mailed = NullToken
Mailed(r, token, mailOk) == [r EXCEPT !.mailed = token, !.mailfail = ~mailOk]

Free(p) == proc[p].pc \in {"idle", "done"}

\* the slot after the handler has returned: the operation and its outcome; of a SignUp
\* also the request, the account id it obtained and whether one of its steps failed, of an
\* InviteUser the roles of the inviter and of the invited, of an AcceptInvite, a
\* VerifyAccount, a Login and a ResendVerificationEmail the request
Done(r, res) ==
    IF r.op = "SignUp"
    THEN [r EXCEPT !.pc = "done", !.res = res, !.u = NoUser, !.o = NoOrg, !.exp = NullTime]
    ELSE IF r.op = "InviteUser"
    THEN [Idle EXCEPT !.pc = "done", !.op = r.op, !.res = res,
                      !.sess = [NoSession EXCEPT !.role = r.sess.role], !.role = r.role]
    ELSE IF r.op = "AcceptInvite"
    THEN [Idle EXCEPT !.pc = "done", !.op = r.op, !.res = res, !.tok = r.tok,
                      !.acct = r.acct, !.email = r.email]
    ELSE IF r.op = "VerifyAccount"
    THEN [Idle EXCEPT !.pc = "done", !.op = r.op, !.res = res, !.tok = r.tok]
    ELSE IF r.op = "Login"
    THEN [Idle EXCEPT !.pc = "done", !.op = r.op, !.res = res, !.acct = r.acct,
                      !.email = r.email, !.pw = r.pw]
    ELSE IF r.op = "ResendVerificationEmail"
    THEN [Idle EXCEPT !.pc = "done", !.op = r.op, !.res = res, !.acct = r.acct,
                      !.email = r.email]
    ELSE [Idle EXCEPT !.pc = "done", !.op = r.op, !.res = res]

MaxOf(S) == CHOOSE m \in S : \A x \in S : x <= m

OrgById(id) == CHOOSE o \in orgs : o.id = id
UserById(id) == CHOOSE u \in users : u.id = id

\* UPDATE ... WHERE id = r.id, all columns (gorm Save of a loaded row)
SaveUser(r) == {u \in users : u.id # r.id} \cup {r}
SaveOrg(r) == {o \in orgs : o.id # r.id} \cup {r}

\* tokens are drawn from crypto/rand or uuid.NewString: never one that was issued before
TokenIssuing == {"su_name", "su_max", "su_org", "su_user", "su_commit",
                 "iv_exist", "iv_create", "fp_update", "rv_save"}
TokensInFlight == Cardinality({q \in Procs : proc[q].pc \in TokenIssuing})
TokenBudget(n) == (nextTok - 1) + TokensInFlight < n

\* room for n organizations / n users, counting the requests that are about to insert one
OrgBudget(n) ==
    Cardinality(orgs) + Cardinality({q \in Procs : proc[q].pc \in
        {"su_name", "su_max", "su_org", "su_user", "su_commit"}}) < n
UserBudget(n) ==
    Cardinality(users) + Cardinality({q \in Procs : proc[q].pc \in
        {"su_name", "su_max", "su_org", "su_user", "su_commit", "iv_exist", "iv_create"}}) < n

RECURSIVE SumOver(_, _)
SumOver(f, S) == IF S = {} THEN 0
                 ELSE LET x == CHOOSE y \in S : TRUE IN f[x] + SumOver(f, S \ {x})

\* room for an n-th password rotation, counting the requests that are about to rotate
RotationBudget(n) ==
    SumOver(rotations, UserIds)
      + Cardinality({q \in Procs : proc[q].pc \in {"rb_save", "rp_read", "rp_save"}}) < n

----------------------------------------------------------------------------
(* SignUp: one database transaction (READ COMMITTED)                       *)

SignUpPcs == {"su_name", "su_max", "su_org", "su_user", "su_commit"}

\* rows another open transaction has inserted and not yet committed
InFlightAccountIds(p) ==
    {proc[q].acct : q \in {r \in Procs \ {p} : proc[r].pc \in {"su_user", "su_commit"}}}
InFlightOwnerEmails(p) ==
    {Lower(proc[q].email) : q \in {r \in Procs \ {p} : proc[r].pc = "su_commit"}}

\* the table without its UNIQUE constraint on account_id
AccountIdUniqueDropped(acct) == TRUE

\* organizations.account_id UNIQUE
AccountIdUnique(acct) == \A o \in orgs : o.account_id # acct

\* the index on the email of owners as written, without LOWER
OwnerEmailUniqueExact(email) ==
    \A u \in users : u.role = "owner" => u.email # email

\* idx_unique_owner_email_global: UNIQUE (LOWER(email)) WHERE role = 'owner'
OwnerEmailUnique(email) ==
    \A u \in users : u.role = "owner" => Lower(u.email) # Lower(email)

\* account ids are counted from 1100000000000000: the model keeps the offset, the eight
\* leading digits of the number are those of AccountIdHigh and the offset fills the rest
AccountIdHigh == 11000000
AccountIdLow == 100000000

\* the w low decimal digits of n, padded with zeros on the left
RECURSIVE Digits(_, _)
Digits(n, w) == IF w = 0 THEN <<>> ELSE Append(Digits(n \div 10, w - 1), n % 10)

\* the number a sequence of decimal digits denotes
RECURSIVE DigitsValue(_)
DigitsValue(d) ==
    IF d = <<>> THEN 0 ELSE 10 * DigitsValue(SubSeq(d, 1, Len(d) - 1)) + d[Len(d)]

\* fmt.Sprintf("%016d", n) for the number of offset k
FormatAccountID(k) ==
    Digits(AccountIdHigh + (k \div AccountIdLow), 8) \o Digits(k % AccountIdLow, 8)

\* strconv.ParseInt(s, 10, 64), as an offset
ParseAccountID(d) ==
    (DigitsValue(SubSeq(d, 1, Len(d) - 8)) - AccountIdHigh) * AccountIdLow
      + DigitsValue(SubSeq(d, Len(d) - 7, Len(d)))

\* the account id that repeats the largest one
NextAccountIDNoIncrement ==
    LET lastID == IF orgs = {} THEN LastIDDefault
                  ELSE ParseAccountID(FormatAccountID(MaxOf({o.account_id : o \in orgs})))
    IN ParseAccountID(FormatAccountID(lastID))

\* SELECT MAX(account_id), ParseInt, lastID + 1, Sprintf("%016d"); the column stores the
\* number the formatted string denotes
NextAccountID ==
    LET lastID == IF orgs = {} THEN LastIDDefault
                  ELSE ParseAccountID(FormatAccountID(MaxOf({o.account_id : o \in orgs})))
    IN ParseAccountID(FormatAccountID(lastID + 1))

\* the row of the signing-up user with the role member
NewOwnerUserAsMember(id, org, r, token) ==
    [id |-> id, org |-> org, name |-> r.oname, email |-> r.email, password |-> Hash(r.pw),
     role |-> "member", status |-> "pending", invited_by |-> NullId,
     token |-> token, expires |-> r.exp, tv |-> InitialTokenVersion]

\* the owner row SignUp inserts
NewOwnerUser(id, org, r, token) ==
    [id |-> id, org |-> org, name |-> r.oname, email |-> r.email, password |-> Hash(r.pw),
     role |-> "owner", status |-> "pending", invited_by |-> NullId,
     token |-> token, expires |-> r.exp, tv |-> InitialTokenVersion]

\* the organization row as inserted, without the later Save of created_by
NewOrganizationNoCreator(id, r, owner) ==
    [id |-> id, name |-> r.name, account_id |-> r.acct, created_by |-> NullId, status |-> "pending"]

\* the organization row SignUp inserts, with created_by set by the later Save
NewOrganization(id, r, owner) ==
    [id |-> id, name |-> r.name, account_id |-> r.acct, created_by |-> owner, status |-> "pending"]

\* SignupRequest.Password carries validate:"required,min=8" and no binding tag
MinPasswordLength == 8
SignupPasswordTags == [validate |-> MinPasswordLength, binding |-> 0]

\* a plaintext of fewer than eight characters; the other plaintexts have eight or more
ShortPassword == 3
PasswordLength(pw) ==
    IF pw = ShortPassword THEN MinPasswordLength - 1 ELSE MinPasswordLength + pw

\* c.ShouldBindJSON(&req): gin decodes the body and applies the rules of the binding tags
ShouldBindJSON(tags, pw) == PasswordLength(pw) >= tags.binding

\* tx := s.db.WithContext(ctx).Begin()
SignUpBegin(p, orgName, ownerName, email, pw) ==
    /\ Free(p)
    /\ proc' = [proc EXCEPT ![p] = [Idle EXCEPT !.pc = "su_name", !.op = "SignUp",
                    !.name = orgName, !.oname = ownerName, !.email = email, !.pw = pw]]
    /\ UNCHANGED <<orgs, users, sessions, now, nextTok, rotations, revoked, redeemed>>

\* AuthenticationHandler.SignUp: bind the body, 400 when that fails, else the service
SignUpHandler(p, orgName, ownerName, email, pw) ==
    IF ShouldBindJSON(SignupPasswordTags, pw)
    THEN SignUpBegin(p, orgName, ownerName, email, pw)
    ELSE /\ Free(p)
         /\ proc' = [proc EXCEPT ![p] =
                       Done([Idle EXCEPT !.op = "SignUp", !.name = orgName,
                                         !.oname = ownerName, !.email = email, !.pw = pw],
                            "bad_request")]
         /\ UNCHANGED <<orgs, users, sessions, now, nextTok, rotations, revoked, redeemed>>

\* 1: an organization with this name exists -> rollback, conflict
SignUpNameCheck(p) ==
    /\ proc[p].pc = "su_name"
    /\ proc' = [proc EXCEPT ![p] =
                  IF \E o \in orgs : o.name = proc[p].name
                  THEN Done(proc[p], "conflict")
                  ELSE [proc[p] EXCEPT !.pc = "su_max"]]
    /\ UNCHANGED <<orgs, users, sessions, now, nextTok, rotations, revoked, redeemed>>

\* 2: read MAX(account_id) and add one
SignUpReadMax(p) ==
    /\ proc[p].pc = "su_max"
    /\ proc' = [proc EXCEPT ![p] = [proc[p] EXCEPT !.pc = "su_org", !.acct = NextAccountID]]
    /\ UNCHANGED <<orgs, users, sessions, now, nextTok, rotations, revoked, redeemed>>

\* 3: INSERT the organization; a duplicate key held by an open transaction makes the
\*    statement wait for that transaction, a committed one makes it fail
SignUpInsertOrg(p) ==
    /\ proc[p].pc = "su_org"
    /\ proc[p].acct \notin InFlightAccountIds(p)
    /\ proc' = [proc EXCEPT ![p] =
                  IF AccountIdUnique(proc[p].acct)
                  THEN [proc[p] EXCEPT !.pc = "su_user"]
                  ELSE Done(proc[p], "account_id_taken")]
    /\ UNCHANGED <<orgs, users, sessions, now, nextTok, rotations, revoked, redeemed>>

\* 4-6: hash the password, generate the token (its error is dropped), INSERT the owner
SignUpInsertUser(p, tokOk) ==
    /\ proc[p].pc = "su_user"
    /\ Lower(proc[p].email) \notin InFlightOwnerEmails(p)
    /\ proc' = [proc EXCEPT ![p] =
                  IF OwnerEmailUnique(proc[p].email)
                  THEN [proc[p] EXCEPT !.pc = "su_commit", !.exp = now + HourTTL,
                                       !.tokfail = ~tokOk, !.failed = ~tokOk]
                  ELSE Done(proc[p], "owner_email_taken")]
    /\ UNCHANGED <<orgs, users, sessions, now, nextTok, rotations, revoked, redeemed>>

\* 7-8: Save the organization with created_by, Commit; the rows become visible together;
\* then the goroutine with the verification mail, whose error is only logged
SignUpCommit(p, mailOk) ==
    /\ proc[p].pc = "su_commit"
    /\ LET oid == Cardinality(orgs) + 1
           uid == Cardinality(users) + 1
           token == IF proc[p].tokfail THEN EmptyToken ELSE nextTok
       IN /\ orgs' = orgs \cup {NewOrganization(oid, proc[p], uid)}
          /\ users' = users \cup {NewOwnerUser(uid, oid, proc[p], token)}
          /\ nextTok' = IF proc[p].tokfail THEN nextTok ELSE nextTok + 1
          /\ proc' = [proc EXCEPT ![p] =
                        Mailed([Done(proc[p], "ok") EXCEPT !.tok = token], token, mailOk)]
    /\ UNCHANGED <<sessions, now, rotations, revoked, redeemed>>

\* a statement of the transaction returns an error (store failure, cancelled context,
\* bcrypt error): tx.Rollback() and the error is returned
SignUpFail(p) ==
    /\ proc[p].pc \in SignUpPcs
    /\ proc' = [proc EXCEPT ![p] = [Done(proc[p], "error") EXCEPT !.failed = TRUE]]
    /\ UNCHANGED <<orgs, users, sessions, now, nextTok, rotations, revoked, redeemed>>

----------------------------------------------------------------------------
(* VerifyAccount                                                           *)

\* the handler returned success for a request that presented token t
Redeem(t) == [redeemed EXCEPT ![t] = @ + 1]

\* the lookup that clears a token it finds expired
VerifyAccountBeginClearsExpired(p, token) ==
    /\ Free(p)
    /\ LET found == {u \in users : u.token = token}
           r == [Idle EXCEPT !.op = "VerifyAccount", !.tok = token]
       IN \/ /\ found = {}
             /\ proc' = [proc EXCEPT ![p] = Done(r, "invalid_token")]
             /\ users' = users
          \/ \E u \in found :
                IF u.status = "active"
                THEN proc' = [proc EXCEPT ![p] = Done(r, "already_verified")] /\ users' = users
                ELSE IF u.expires # NullTime /\ now > u.expires
                THEN /\ proc' = [proc EXCEPT ![p] = Done(r, "expired")]
                     /\ users' = SaveUser([u EXCEPT !.token = NullToken, !.expires = NullTime])
                ELSE /\ proc' = [proc EXCEPT ![p] = [r EXCEPT !.pc = "va_save", !.u = u]]
                     /\ users' = users
    /\ UNCHANGED <<orgs, sessions, now, nextTok, rotations, revoked, redeemed>>

\* 1-3: load the user by invite_token, reject active users and expired tokens
VerifyAccountBegin(p, token) ==
    /\ Free(p)
    /\ LET found == {u \in users : u.token = token}
           r == [Idle EXCEPT !.op = "VerifyAccount", !.tok = token]
       IN \/ /\ found = {}
             /\ proc' = [proc EXCEPT ![p] = Done(r, "invalid_token")]
          \/ \E u \in found :
                proc' = [proc EXCEPT ![p] =
                  IF u.status = "active" THEN Done(r, "already_verified")
                  ELSE IF u.expires # NullTime /\ now > u.expires THEN Done(r, "expired")
                  ELSE [r EXCEPT !.pc = "va_save", !.u = u]]
    /\ UNCHANGED <<orgs, users, sessions, now, nextTok, rotations, revoked, redeemed>>

\* 4: s.db.Save(&user) with status active and the token cleared
VerifyAccountSave(p, ok) ==
    /\ proc[p].pc = "va_save"
    /\ LET row == [proc[p].u EXCEPT !.status = "active", !.token = NullToken, !.expires = NullTime]
       IN IF ~ok
          THEN /\ proc' = [proc EXCEPT ![p] = Done(proc[p], "error")]
               /\ UNCHANGED <<users, redeemed>>
          ELSE /\ users' = SaveUser(row)
               /\ IF row.role = "owner"
                  THEN /\ proc' = [proc EXCEPT ![p] = [proc[p] EXCEPT !.pc = "va_org", !.u = row]]
                       /\ UNCHANGED redeemed
                  ELSE /\ proc' = [proc EXCEPT ![p] = Done(proc[p], "ok")]
                       /\ redeemed' = Redeem(proc[p].tok)
    /\ UNCHANGED <<orgs, sessions, now, nextTok, rotations, revoked>>

\* 5: s.db.First(&org, "id = ?", user.OrganizationID)
VerifyAccountLoadOrg(p, ok) ==
    /\ proc[p].pc = "va_org"
    /\ proc' = [proc EXCEPT ![p] =
                  IF ok /\ \E o \in orgs : o.id = proc[p].u.org
                  THEN [proc[p] EXCEPT !.pc = "va_orgsave", !.o = OrgById(proc[p].u.org)]
                  ELSE Done(proc[p], "error")]
    /\ UNCHANGED <<orgs, users, sessions, now, nextTok, rotations, revoked, redeemed>>

\* 5: org.Status = "active"; s.db.Save(&org)
VerifyAccountSaveOrg(p, ok) ==
    /\ proc[p].pc = "va_orgsave"
    /\ IF ok
       THEN /\ orgs' = SaveOrg([proc[p].o EXCEPT !.status = "active"])
            /\ proc' = [proc EXCEPT ![p] = Done(proc[p], "ok")]
            /\ redeemed' = Redeem(proc[p].tok)
       ELSE /\ proc' = [proc EXCEPT ![p] = Done(proc[p], "error")]
            /\ UNCHANGED <<orgs, redeemed>>
    /\ UNCHANGED <<users, sessions, now, nextTok, rotations, revoked>>

----------------------------------------------------------------------------
(* Sessions: GenerateJWT, validateJWT, Login                               *)

\* the checks of validateJWT without the comparison of token versions
validateJWTNoVersion(s) ==
    IF ~(now < s.exp) THEN "invalid_token"
    ELSE IF ~ \E u \in users : u.id = s.uid THEN "user_not_found"
    ELSE IF UserById(s.uid).status # "active" THEN "not_active"
    ELSE "ok"

\* jwt.ParseWithClaims (signature, exp), then the user row: status and token_version
validateJWT(s) ==
    IF ~(now < s.exp) THEN "invalid_token"
    ELSE IF ~ \E u \in users : u.id = s.uid THEN "user_not_found"
    ELSE IF UserById(s.uid).status # "active" THEN "not_active"
    ELSE IF UserById(s.uid).tv # s.tv THEN "stale"
    ELSE "ok"

\* utils.GenerateJWT(jwtUser)
GenerateJWT(u, o) ==
    [uid |-> u.id, org |-> u.org, account_id |-> o.account_id, role |-> u.role,
     tv |-> u.tv, exp |-> now + SessionTTL]

\* Login without the check of the status of the user
LoginAnyStatus(p, acct, email, pw) ==
    /\ Free(p)
    /\ LET r == [Idle EXCEPT !.op = "Login", !.acct = acct, !.email = email, !.pw = pw]
           os == {o \in orgs : o.account_id = acct}
       IN IF os = {}
          THEN /\ proc' = [proc EXCEPT ![p] = Done(r, "org_not_found")]
               /\ UNCHANGED sessions
          ELSE \E o \in os :
            LET us == {u \in users : u.email = email /\ u.org = o.id}
            IN IF us = {}
               THEN /\ proc' = [proc EXCEPT ![p] = Done(r, "invalid_credentials")]
                    /\ UNCHANGED sessions
               ELSE \E u \in us :
                 IF ~CompareHashAndPassword(u.password, pw)
                 THEN /\ proc' = [proc EXCEPT ![p] = Done(r, "invalid_credentials")]
                      /\ UNCHANGED sessions
                 ELSE /\ Cardinality(sessions \cup {GenerateJWT(u, o)}) <= MaxSessions
                      /\ sessions' = sessions \cup {GenerateJWT(u, o)}
                      /\ proc' = [proc EXCEPT ![p] =
                                    [Done(r, "ok") EXCEPT !.sess = GenerateJWT(u, o)]]
    /\ UNCHANGED <<orgs, users, now, nextTok, rotations, revoked, redeemed>>

\* Login: organization by account_id, user by (email, organization), status, password
Login(p, acct, email, pw) ==
    /\ Free(p)
    /\ LET r == [Idle EXCEPT !.op = "Login", !.acct = acct, !.email = email, !.pw = pw]
           os == {o \in orgs : o.account_id = acct}
       IN IF os = {}
          THEN /\ proc' = [proc EXCEPT ![p] = Done(r, "org_not_found")]
               /\ UNCHANGED sessions
          ELSE \E o \in os :
            LET us == {u \in users : u.email = email /\ u.org = o.id}
            IN IF us = {}
               THEN /\ proc' = [proc EXCEPT ![p] = Done(r, "invalid_credentials")]
                    /\ UNCHANGED sessions
               ELSE \E u \in us :
                 IF u.status # "active"
                 THEN /\ proc' = [proc EXCEPT ![p] = Done(r, "not_active")]
                      /\ UNCHANGED sessions
                 ELSE IF ~CompareHashAndPassword(u.password, pw)
                 THEN /\ proc' = [proc EXCEPT ![p] = Done(r, "invalid_credentials")]
                      /\ UNCHANGED sessions
                 ELSE /\ Cardinality(sessions \cup {GenerateJWT(u, o)}) <= MaxSessions
                      /\ sessions' = sessions \cup {GenerateJWT(u, o)}
                      /\ proc' = [proc EXCEPT ![p] =
                                    [Done(r, "ok") EXCEPT !.sess = GenerateJWT(u, o)]]
    /\ UNCHANGED <<orgs, users, now, nextTok, rotations, revoked, redeemed>>

\* the error Login returns for each of its failed checks
LoginErrorMessage(res) ==
    IF res = "org_not_found" THEN "organization not found"
    ELSE IF res = "invalid_credentials" THEN "invalid credentials"
    ELSE IF res = "not_active" THEN "user is not active"
    ELSE ""

\* AuthenticationHandler.Login: 401 with err.Error() as the message, 200 on success
LoginResponse(r) ==
    IF r.res = "ok" THEN [status |-> 200, message |-> "Login successful"]
    ELSE [status |-> 401, message |-> LoginErrorMessage(r.res)]

----------------------------------------------------------------------------
(* ForgotPassword, ResetPasswordByEmail, ResetPassword                     *)

\* a rotation has succeeded for user id: every session issued to it so far is to be dead
Rotated(id) ==
    /\ rotations' = [rotations EXCEPT ![id] = @ + 1]
    /\ revoked' = revoked \cup {s \in sessions : s.uid = id}

\* the lookup by email and status alone, in whatever organization
ForgotPasswordBeginAnyOrg(p, email, acct) ==
    /\ Free(p)
    /\ LET r == [Idle EXCEPT !.op = "ForgotPassword", !.email = email, !.acct = acct]
           found == {u \in users : u.email = email /\ u.status = "active"}
       IN \/ /\ found = {}
             /\ proc' = [proc EXCEPT ![p] = Done(r, "not_found")]
          \/ \E u \in found :
                proc' = [proc EXCEPT ![p] = [r EXCEPT !.pc = "fp_update", !.u = u]]
    /\ UNCHANGED <<orgs, users, sessions, now, nextTok, rotations, revoked, redeemed>>

\* the active user with this email in the organization of this account id
ForgotPasswordBegin(p, email, acct) ==
    /\ Free(p)
    /\ LET r == [Idle EXCEPT !.op = "ForgotPassword", !.email = email, !.acct = acct]
           found == {u \in users : /\ u.email = email /\ u.status = "active"
                                   /\ \E o \in orgs : o.id = u.org /\ o.account_id = acct}
       IN \/ /\ found = {}
             /\ proc' = [proc EXCEPT ![p] = Done(r, "not_found")]
          \/ \E u \in found :
                proc' = [proc EXCEPT ![p] = [r EXCEPT !.pc = "fp_update", !.u = u]]
    /\ UNCHANGED <<orgs, users, sessions, now, nextTok, rotations, revoked, redeemed>>

\* the update writing invite_token alone
ForgotPasswordUpdateTokenOnly(p, ok, mailOk) ==
    /\ proc[p].pc = "fp_update"
    /\ IF ~ok
       THEN /\ proc' = [proc EXCEPT ![p] = Done(proc[p], "error")]
            /\ UNCHANGED <<users, nextTok>>
       ELSE /\ users' = SaveUser([UserById(proc[p].u.id) EXCEPT !.token = nextTok])
            /\ nextTok' = nextTok + 1
            /\ proc' = [proc EXCEPT ![p] =
                          Mailed([Done(proc[p], IF mailOk THEN "ok" ELSE "email_failed")
                                     EXCEPT !.tok = nextTok], nextTok, mailOk)]
    /\ UNCHANGED <<orgs, sessions, now, rotations, revoked, redeemed>>

\* Updates(invite_token, expires_at) on the row of that id, then the reset mail
ForgotPasswordUpdate(p, ok, mailOk) ==
    /\ proc[p].pc = "fp_update"
    /\ IF ~ok
       THEN /\ proc' = [proc EXCEPT ![p] = Done(proc[p], "error")]
            /\ UNCHANGED <<users, nextTok>>
       ELSE /\ users' = SaveUser([UserById(proc[p].u.id) EXCEPT
                                    !.token = nextTok, !.expires = now + HourTTL])
            /\ nextTok' = nextTok + 1
            /\ proc' = [proc EXCEPT ![p] =
                          Mailed([Done(proc[p], IF mailOk THEN "ok" ELSE "email_failed")
                                     EXCEPT !.tok = nextTok], nextTok, mailOk)]
    /\ UNCHANGED <<orgs, sessions, now, rotations, revoked, redeemed>>

\* the user by invite_token, then the expiry of the token
ResetPasswordByEmailBegin(p, token, npw) ==
    /\ Free(p)
    /\ LET r == [Idle EXCEPT !.op = "ResetPasswordByEmail", !.tok = token, !.npw = npw]
           found == {u \in users : u.token = token}
       IN \/ /\ found = {}
             /\ proc' = [proc EXCEPT ![p] = Done(r, "invalid_token")]
          \/ \E u \in found :
                proc' = [proc EXCEPT ![p] =
                  IF u.expires = NullTime THEN Done(r, "panic")
                  ELSE IF u.expires < now THEN Done(r, "expired")
                  ELSE [r EXCEPT !.pc = "rb_save", !.u = u]]
    /\ UNCHANGED <<orgs, users, sessions, now, nextTok, rotations, revoked, redeemed>>

\* Save(&user): new hash, status active, TokenVersion += 1, token cleared
ResetPasswordByEmailSave(p, ok) ==
    /\ proc[p].pc = "rb_save"
    /\ IF ~ok
       THEN /\ proc' = [proc EXCEPT ![p] = Done(proc[p], "error")]
            /\ UNCHANGED <<users, rotations, revoked, redeemed>>
       ELSE /\ users' = SaveUser([proc[p].u EXCEPT !.password = Hash(proc[p].npw),
                                     !.status = "active", !.tv = @ + 1,
                                     !.token = NullToken, !.expires = NullTime])
            /\ Rotated(proc[p].u.id)
            /\ redeemed' = Redeem(proc[p].tok)
            /\ proc' = [proc EXCEPT ![p] = Done(proc[p], "ok")]
    /\ UNCHANGED <<orgs, sessions, now, nextTok>>

\* AuthMiddleware in front of /reset-password
ResetPasswordBegin(p, sess, pw, npw) ==
    /\ Free(p)
    /\ LET r == [Idle EXCEPT !.op = "ResetPassword", !.sess = sess, !.pw = pw, !.npw = npw]
       IN proc' = [proc EXCEPT ![p] =
                     IF validateJWT(sess) = "ok" THEN [r EXCEPT !.pc = "rp_read"]
                     ELSE Done(r, "unauthorized")]
    /\ UNCHANGED <<orgs, users, sessions, now, nextTok, rotations, revoked, redeemed>>

\* the read that looks at the status alone
ResetPasswordReadNoOldPassword(p) ==
    /\ proc[p].pc = "rp_read"
    /\ LET found == {u \in users : u.id = proc[p].sess.uid}
       IN \/ /\ found = {}
             /\ proc' = [proc EXCEPT ![p] = Done(proc[p], "user_not_found")]
          \/ \E u \in found :
                proc' = [proc EXCEPT ![p] =
                  IF u.status # "active" THEN Done(proc[p], "not_active")
                  ELSE [proc[p] EXCEPT !.pc = "rp_save", !.u = u]]
    /\ UNCHANGED <<orgs, users, sessions, now, nextTok, rotations, revoked, redeemed>>

\* the user of the claims, its status, the old password
ResetPasswordRead(p) ==
    /\ proc[p].pc = "rp_read"
    /\ LET found == {u \in users : u.id = proc[p].sess.uid}
       IN \/ /\ found = {}
             /\ proc' = [proc EXCEPT ![p] = Done(proc[p], "user_not_found")]
          \/ \E u \in found :
                proc' = [proc EXCEPT ![p] =
                  IF u.status # "active" THEN Done(proc[p], "not_active")
                  ELSE IF ~CompareHashAndPassword(u.password, proc[p].pw)
                       THEN Done(proc[p], "old_password_incorrect")
                  ELSE [proc[p] EXCEPT !.pc = "rp_save", !.u = u]]
    /\ UNCHANGED <<orgs, users, sessions, now, nextTok, rotations, revoked, redeemed>>

\* Save(&user): new hash, TokenVersion += 1
ResetPasswordSave(p, ok) ==
    /\ proc[p].pc = "rp_save"
    /\ IF ~ok
       THEN /\ proc' = [proc EXCEPT ![p] = Done(proc[p], "error")]
            /\ UNCHANGED <<users, rotations, revoked>>
       ELSE /\ users' = SaveUser([proc[p].u EXCEPT !.password = Hash(proc[p].npw), !.tv = @ + 1])
            /\ Rotated(proc[p].u.id)
            /\ proc' = [proc EXCEPT ![p] = Done(proc[p], "ok")]
    /\ UNCHANGED <<orgs, sessions, now, nextTok, redeemed>>

----------------------------------------------------------------------------
(* InviteUser, AcceptInvite, ResendVerificationEmail                       *)

\* the middleware letting every role through
RoleAuthorizationAnyRole(role, allowedRoles) == TRUE

\* RoleAuthorization(allowedRoles...): the role of the claims is one of the allowed
RoleAuthorization(role, allowedRoles) == role \in allowedRoles

\* auth.POST("/invite", RoleAuthorization(RoleOwner, RoleMaintainer), ...)
InviteAllowedRoles == {"owner", "maintainer"}

\* the role switch with an owner allowed to invite any role
InviteRoleOkOwnerAny(inviterRole, targetRole) ==
    IF inviterRole = "owner" THEN TRUE
    ELSE IF inviterRole = "maintainer" THEN targetRole = "member"
    ELSE FALSE

\* 1: switch inviterRole
InviteRoleOk(inviterRole, targetRole) ==
    IF inviterRole = "owner" THEN targetRole \in {"maintainer", "member"}
    ELSE IF inviterRole = "maintainer" THEN targetRole = "member"
    ELSE FALSE

\* the invitation row without the inviter
NewInvitedUserNoInviter(id, org, inviter, r, token) ==
    [id |-> id, org |-> org, name |-> r.name, email |-> r.email,
     password |-> Hash(TempPassword), role |-> r.role, status |-> "pending",
     invited_by |-> NullId, token |-> token, expires |-> r.exp, tv |-> InitialTokenVersion]

\* 5: newUser
NewInvitedUser(id, org, inviter, r, token) ==
    [id |-> id, org |-> org, name |-> r.name, email |-> r.email,
     password |-> Hash(TempPassword), role |-> r.role, status |-> "pending",
     invited_by |-> inviter, token |-> token, expires |-> r.exp, tv |-> InitialTokenVersion]

\* unique_org_email, idx_unique_org_owner_role, idx_unique_owner_email_global
UserInsertable(row) ==
    /\ ~ \E u \in users : u.org = row.org /\ u.email = row.email
    /\ row.role = "owner" =>
         /\ ~ \E u \in users : u.org = row.org /\ u.role = "owner"
         /\ ~ \E u \in users : u.role = "owner" /\ Lower(u.email) = Lower(row.email)

\* the handler without the role rules of the service
InviteUserBeginNoRoleRule(p, sess, name, email, role) ==
    /\ Free(p)
    /\ LET r == [Idle EXCEPT !.op = "InviteUser", !.sess = sess, !.name = name,
                             !.email = email, !.role = role]
       IN proc' = [proc EXCEPT ![p] =
                     IF validateJWT(sess) # "ok" THEN Done(r, "unauthorized")
                     ELSE IF ~RoleAuthorization(sess.role, InviteAllowedRoles)
                          THEN Done(r, "forbidden")
                     ELSE [r EXCEPT !.pc = "iv_exist"]]
    /\ UNCHANGED <<orgs, users, sessions, now, nextTok, rotations, revoked, redeemed>>

\* AuthMiddleware, RoleAuthorization, then 1: the role rules of the service
InviteUserBegin(p, sess, name, email, role) ==
    /\ Free(p)
    /\ LET r == [Idle EXCEPT !.op = "InviteUser", !.sess = sess, !.name = name,
                             !.email = email, !.role = role]
       IN proc' = [proc EXCEPT ![p] =
                     IF validateJWT(sess) # "ok" THEN Done(r, "unauthorized")
                     ELSE IF ~RoleAuthorization(sess.role, InviteAllowedRoles)
                          THEN Done(r, "forbidden")
                     ELSE IF ~InviteRoleOk(sess.role, role) THEN Done(r, "role_refused")
                     ELSE [r EXCEPT !.pc = "iv_exist"]]
    /\ UNCHANGED <<orgs, users, sessions, now, nextTok, rotations, revoked, redeemed>>

\* the existence check that lets a pending invitation be issued again
InviteUserExistActiveOnly(p) ==
    /\ proc[p].pc = "iv_exist"
    /\ LET existing == {u \in users : u.org = proc[p].sess.org /\ u.email = proc[p].email
                                   /\ u.status = "active"}
       IN \/ /\ existing = {}
             /\ proc' = [proc EXCEPT ![p] = [proc[p] EXCEPT !.pc = "iv_create",
                                                            !.exp = now + InviteTTL]]
          \/ \E u \in existing :
                proc' = [proc EXCEPT ![p] =
                           Done(proc[p], IF u.status = "active" THEN "already_active"
                                         ELSE "already_invited")]
    /\ UNCHANGED <<orgs, users, sessions, now, nextTok, rotations, revoked, redeemed>>

\* 2: a user with this email in the organization of the claims
InviteUserExist(p) ==
    /\ proc[p].pc = "iv_exist"
    /\ LET existing == {u \in users : u.org = proc[p].sess.org /\ u.email = proc[p].email}
       IN \/ /\ existing = {}
             /\ proc' = [proc EXCEPT ![p] = [proc[p] EXCEPT !.pc = "iv_create",
                                                            !.exp = now + InviteTTL]]
          \/ \E u \in existing :
                proc' = [proc EXCEPT ![p] =
                           Done(proc[p], IF u.status = "active" THEN "already_active"
                                         ELSE "already_invited")]
    /\ UNCHANGED <<orgs, users, sessions, now, nextTok, rotations, revoked, redeemed>>

\* the invitation mail dispatched before the outcome of s.db.Create is known
InviteUserCreateMailFirst(p, ok, mailOk) ==
    /\ proc[p].pc = "iv_create"
    /\ LET row == NewInvitedUser(Cardinality(users) + 1, proc[p].sess.org, proc[p].sess.uid,
                                 proc[p], nextTok)
       IN IF ok /\ UserInsertable(row)
          THEN /\ users' = users \cup {row}
               /\ nextTok' = nextTok + 1
               /\ proc' = [proc EXCEPT ![p] = Mailed(Done(proc[p], "ok"), nextTok, mailOk)]
          ELSE /\ proc' = [proc EXCEPT ![p] = Mailed(Done(proc[p], "error"), nextTok, mailOk)]
               /\ UNCHANGED <<users, nextTok>>
    /\ UNCHANGED <<orgs, sessions, now, rotations, revoked, redeemed>>

\* 3-7: temporary password, token, s.db.Create(newUser); then the goroutine with the
\* invitation mail, whose error is only logged
InviteUserCreate(p, ok, mailOk) ==
    /\ proc[p].pc = "iv_create"
    /\ LET row == NewInvitedUser(Cardinality(users) + 1, proc[p].sess.org, proc[p].sess.uid,
                                 proc[p], nextTok)
       IN IF ok /\ UserInsertable(row)
          THEN /\ users' = users \cup {row}
               /\ nextTok' = nextTok + 1
               /\ proc' = [proc EXCEPT ![p] = Mailed(Done(proc[p], "ok"), nextTok, mailOk)]
          ELSE /\ proc' = [proc EXCEPT ![p] = Done(proc[p], "error")]
               /\ UNCHANGED <<users, nextTok>>
    /\ UNCHANGED <<orgs, sessions, now, rotations, revoked, redeemed>>

\* the lookup of an invitation by its token alone
AcceptInviteLookupByToken(token, acct, email) ==
    {u \in users : u.token = token}

\* JOIN organizations o ... WHERE users.email = ? AND users.invite_token = ? AND o.account_id = ?
AcceptInviteLookup(token, acct, email) ==
    {u \in users : /\ u.email = email
                   /\ u.token = token
                   /\ \E o \in orgs : o.id = u.org /\ o.account_id = acct}

\* the lookup, the expiry of the token, the status
AcceptInviteBegin(p, token, acct, email, name, pw) ==
    /\ Free(p)
    /\ LET r == [Idle EXCEPT !.op = "AcceptInvite", !.tok = token, !.acct = acct,
                             !.email = email, !.name = name, !.pw = pw]
           found == AcceptInviteLookup(token, acct, email)
       IN \/ /\ found = {}
             /\ proc' = [proc EXCEPT ![p] = Done(r, "invalid_invite")]
          \/ \E u \in found :
                proc' = [proc EXCEPT ![p] =
                  IF u.expires # NullTime /\ u.expires < now THEN Done(r, "expired")
                  ELSE IF u.status = "active" THEN Done(r, "already_active")
                  ELSE [r EXCEPT !.pc = "ai_save", !.u = u]]
    /\ UNCHANGED <<orgs, users, sessions, now, nextTok, rotations, revoked, redeemed>>

\* Save(&user): name, new hash, status active, token cleared
AcceptInviteSave(p, ok) ==
    /\ proc[p].pc = "ai_save"
    /\ IF ~ok
       THEN /\ proc' = [proc EXCEPT ![p] = Done(proc[p], "error")]
            /\ UNCHANGED <<users, redeemed>>
       ELSE /\ users' = SaveUser([proc[p].u EXCEPT !.name = proc[p].name,
                                     !.password = Hash(proc[p].pw), !.status = "active",
                                     !.token = NullToken, !.expires = NullTime])
            /\ redeemed' = Redeem(proc[p].tok)
            /\ proc' = [proc EXCEPT ![p] = Done(proc[p], "ok")]
    /\ UNCHANGED <<orgs, sessions, now, nextTok, rotations, revoked>>

\* the organization by account_id, the pending user by email; a token that is missing or
\* past its expiry is to be regenerated, else the mail goes out with the token at hand
ResendVerificationEmailBegin(p, acct, email, mailOk) ==
    /\ Free(p)
    /\ LET r == [Idle EXCEPT !.op = "ResendVerificationEmail", !.acct = acct, !.email = email]
           os == {o \in orgs : o.account_id = acct}
       IN IF os = {}
          THEN proc' = [proc EXCEPT ![p] = Done(r, "org_not_found")]
          ELSE \E o \in os :
            LET us == {u \in users : u.email = email /\ u.org = o.id /\ u.status = "pending"}
            IN IF us = {}
               THEN proc' = [proc EXCEPT ![p] = Done(r, "no_pending_user")]
               ELSE \E u \in us :
                 proc' = [proc EXCEPT ![p] =
                   IF u.token = NullToken \/ u.expires = NullTime \/ now > u.expires
                   THEN [r EXCEPT !.pc = "rv_save", !.u = u]
                   ELSE Mailed(Done(r, IF mailOk THEN "ok" ELSE "email_failed"),
                               u.token, mailOk)]
    /\ UNCHANGED <<orgs, users, sessions, now, nextTok, rotations, revoked, redeemed>>

\* token, _ := GenerateSecureToken(32); Save(&user); SendEmail
ResendVerificationEmailSave(p, tokOk, ok, mailOk) ==
    /\ proc[p].pc = "rv_save"
    /\ IF ~ok
       THEN /\ proc' = [proc EXCEPT ![p] = Done(proc[p], "error")]
            /\ UNCHANGED <<users, nextTok>>
       ELSE /\ users' = SaveUser([proc[p].u EXCEPT
                                     !.token = IF tokOk THEN nextTok ELSE EmptyToken,
                                     !.expires = now + HourTTL])
            /\ nextTok' = IF tokOk THEN nextTok + 1 ELSE nextTok
            /\ proc' = [proc EXCEPT ![p] =
                          Mailed(Done(proc[p], IF mailOk THEN "ok" ELSE "email_failed"),
                                 IF tokOk THEN nextTok ELSE EmptyToken, mailOk)]
    /\ UNCHANGED <<orgs, sessions, now, rotations, revoked, redeemed>>

----------------------------------------------------------------------------
(* Specifications                                                          *)

Tokens == (1..MaxIds) \cup {EmptyToken}

Init ==
    /\ orgs = {}
    /\ users = {}
    /\ proc = [p \in Procs |-> Idle]
    /\ sessions = {}
    /\ now = 0
    /\ nextTok = 1
    /\ rotations = [i \in UserIds |-> 0]
    /\ revoked = {}
    /\ redeemed = [t \in Tokens |-> 0]

\* the clock of the host
Tick ==
    /\ now + TickHours <= MaxTime
    /\ now' = now + TickHours
    /\ UNCHANGED <<orgs, users, proc, sessions, nextTok, rotations, revoked, redeemed>>

OrgNames == {"Acme", "Globex"}
SignUpEmails == {"a@x", "b@x", "A@x"}

\* concurrent sign-ups and verifications
NextSignUp ==
    \E p \in Procs :
        \/ /\ OrgBudget(MaxOrgs) /\ UserBudget(MaxUsers) /\ TokenBudget(MaxTokens)
           /\ \E n \in OrgNames, e \in SignUpEmails : SignUpBegin(p, n, "Alice", e, 1)
        \/ SignUpNameCheck(p)
        \/ SignUpReadMax(p)
        \/ SignUpInsertOrg(p)
        \/ \E tokOk \in BOOLEAN : SignUpInsertUser(p, tokOk)
        \/ SignUpCommit(p, TRUE)
        \/ SignUpFail(p)
        \/ \E t \in (1..MaxTokens) \cup {EmptyToken} : VerifyAccountBegin(p, t)
        \/ \E ok \in BOOLEAN : VerifyAccountSave(p, ok)
        \/ \E ok \in BOOLEAN : VerifyAccountLoadOrg(p, ok)
        \/ \E ok \in BOOLEAN : VerifyAccountSaveOrg(p, ok)

SpecSignUp == Init /\ [][NextSignUp]_vars

Passwords == {1, 2}

\* the request SignUp("Acme", "Alice", "a@x", password 1) as it stands in its slot at Commit
AcmeSignUp ==
    [Idle EXCEPT !.pc = "su_commit", !.op = "SignUp", !.name = "Acme", !.oname = "Alice",
                 !.email = "a@x", !.pw = 1, !.acct = LastIDDefault + 1, !.exp = HourTTL]

\* the store right after that SignUp has committed on an empty store at time 0
InitSignedUp ==
    /\ orgs = {NewOrganization(1, AcmeSignUp, 1)}
    /\ users = {NewOwnerUser(1, 1, AcmeSignUp, 1)}
    /\ proc = [p \in Procs |-> IF p = 1 THEN [Done(AcmeSignUp, "ok") EXCEPT !.tok = 1] ELSE Idle]
    /\ sessions = {}
    /\ now = 0
    /\ nextTok = 2
    /\ rotations = [i \in UserIds |-> 0]
    /\ revoked = {}
    /\ redeemed = [t \in Tokens |-> 0]

\* one organization: its owner verifies, asks for the verification mail again, logs in,
\* asks for reset links and rotates the password
NextSession ==
    \E p \in Procs :
        \/ \E t \in 1..MaxTokens : VerifyAccountBegin(p, t)
        \/ VerifyAccountSave(p, TRUE)
        \/ VerifyAccountLoadOrg(p, TRUE)
        \/ VerifyAccountSaveOrg(p, TRUE)
        \/ \E pw \in Passwords : Login(p, 1, "a@x", pw)
        \/ TokenBudget(MaxTokens) /\ ForgotPasswordBegin(p, "a@x", 1)
        \/ TokenBudget(MaxTokens) /\ ResendVerificationEmailBegin(p, 1, "a@x", TRUE)
        \/ ResendVerificationEmailSave(p, TRUE, TRUE, TRUE)
        \/ ForgotPasswordUpdate(p, TRUE, TRUE)
        \/ /\ RotationBudget(MaxRotations)
           /\ \E t \in 1..MaxTokens, npw \in Passwords : ResetPasswordByEmailBegin(p, t, npw)
        \/ ResetPasswordByEmailSave(p, TRUE)
        \/ /\ RotationBudget(MaxRotations)
           /\ \E s \in sessions, pw \in Passwords, npw \in Passwords : ResetPasswordBegin(p, s, pw, npw)
        \/ ResetPasswordRead(p)
        \/ ResetPasswordSave(p, TRUE)
        \/ Tick

SpecSession == InitSignedUp /\ [][NextSession]_vars

\* the requests behind the rows of InitInvite
GlobexSignUp ==
    [AcmeSignUp EXCEPT !.name = "Globex", !.oname = "Bob", !.email = "b@x",
                       !.acct = LastIDDefault + 2]
MaryInvite ==
    [Idle EXCEPT !.name = "Mary", !.email = "m@x", !.role = "maintainer", !.exp = InviteTTL]
EveInvite ==
    [Idle EXCEPT !.name = "Eve", !.email = "e@x", !.role = "member", !.exp = InviteTTL]

\* a row after VerifyAccount or AcceptInvite (password 1) has activated it
Activated(u) ==
    [u EXCEPT !.status = "active", !.token = NullToken, !.expires = NullTime,
              !.password = Hash(1)]

\* two verified organizations at time 0: Acme with its owner, the maintainer the owner
\* invited (accepted) and the member the maintainer invited (pending); Globex with its owner
InitInvite ==
    /\ orgs = {[NewOrganization(1, AcmeSignUp, 1) EXCEPT !.status = "active"],
               [NewOrganization(2, GlobexSignUp, 3) EXCEPT !.status = "active"]}
    /\ users = {Activated(NewOwnerUser(1, 1, AcmeSignUp, 1)),
                Activated(NewInvitedUser(2, 1, 1, MaryInvite, 2)),
                Activated(NewOwnerUser(3, 2, GlobexSignUp, 3)),
                NewInvitedUser(4, 1, 2, EveInvite, 4)}
    /\ proc = [p \in Procs |-> Idle]
    /\ sessions = {}
    /\ now = 0
    /\ nextTok = 5
    /\ rotations = [i \in UserIds |-> 0]
    /\ revoked = {}
    /\ redeemed = [t \in Tokens |-> IF t \in 1..3 THEN 1 ELSE 0]

InviteEmails == {"c@x", "m@x"}
AcceptEmails == {"c@x", "e@x"}

\* the tokens that are in some mailbox
LiveTokens == {u.token : u \in users} \ {NullToken, EmptyToken}
AccountIds == {o.account_id : o \in orgs}

\* every operation of the service over the two organizations
NextInvite ==
    \E p \in Procs :
        \/ \E u \in users : u.org = 1 /\ Login(p, 1, u.email, 1)
        \/ /\ UserBudget(MaxIds) /\ TokenBudget(MaxIds)
           /\ \E s \in sessions, e \in InviteEmails, role \in Roles :
                 InviteUserBegin(p, s, "Carol", e, role)
        \/ InviteUserExist(p)
        \/ InviteUserCreate(p, TRUE, TRUE)
        \/ \E t \in LiveTokens, a \in AccountIds, e \in AcceptEmails :
              AcceptInviteBegin(p, t, a, e, "Carol", 1)
        \/ AcceptInviteSave(p, TRUE)
        \/ /\ OrgBudget(MaxOrgs + 1) /\ UserBudget(MaxIds) /\ TokenBudget(MaxIds)
           /\ SignUpBegin(p, "Initech", "Irene", "i@x", 1)
        \/ SignUpNameCheck(p)
        \/ SignUpReadMax(p)
        \/ SignUpInsertOrg(p)
        \/ SignUpInsertUser(p, TRUE)
        \/ SignUpCommit(p, TRUE)
        \/ SignUpFail(p)
        \/ \E t \in LiveTokens : VerifyAccountBegin(p, t)
        \/ VerifyAccountSave(p, TRUE)
        \/ VerifyAccountLoadOrg(p, TRUE)
        \/ VerifyAccountSaveOrg(p, TRUE)
        \/ /\ TokenBudget(MaxIds)
           /\ \E a \in AccountIds, e \in {"e@x", "i@x"} : ResendVerificationEmailBegin(p, a, e, TRUE)
        \/ ResendVerificationEmailSave(p, TRUE, TRUE, TRUE)
        \/ TokenBudget(MaxIds) /\ ForgotPasswordBegin(p, "m@x", 1)
        \/ ForgotPasswordUpdate(p, TRUE, TRUE)
        \/ /\ RotationBudget(MaxRotations - 1)
           /\ \E t \in LiveTokens : ResetPasswordByEmailBegin(p, t, 2)
        \/ ResetPasswordByEmailSave(p, TRUE)
        \/ /\ RotationBudget(MaxRotations - 1)
           /\ \E s \in sessions : ResetPasswordBegin(p, s, 1, 2)
        \/ ResetPasswordRead(p)
        \/ ResetPasswordSave(p, TRUE)
        \/ Tick

SpecInvite == InitInvite /\ [][NextInvite]_vars

\* emails of invitations: a new one, those of an active and of a pending user of Acme, and
\* the email of Acme's owner in another letter case
MemberEmails == {"c@x", "m@x", "e@x", "A@x"}

\* the tokens in some mailbox, those of acceptances that went through included
MailedTokens ==
    LiveTokens \cup {proc[q].tok : q \in {r \in Procs : /\ proc[r].op = "AcceptInvite"
                                                        /\ proc[r].res = "ok"}}

\* logins with an account id no organization has, and with an email Acme does not know
UnknownLogins == {<<LastIDDefault + 3, "a@x">>, <<LastIDDefault + 1, "b@x">>}

\* the members of the two organizations: logins at Acme, invitations and acceptances
NextMembers ==
    \E p \in Procs :
        \/ \E u \in users, pw \in Passwords \cup {TempPassword} :
              u.org = 1 /\ Login(p, 1, u.email, pw)
        \/ \E r \in UnknownLogins : Login(p, r[1], r[2], 1)
        \/ /\ UserBudget(MaxIds) /\ TokenBudget(MaxIds)
           /\ \E s \in sessions, e \in MemberEmails, role \in Roles :
                 InviteUserBegin(p, s, "Carol", e, role)
        \/ InviteUserExist(p)
        \/ InviteUserCreate(p, TRUE, TRUE)
        \/ \E t \in MailedTokens, a \in AccountIds, e \in {"e@x", "A@x"} :
              AcceptInviteBegin(p, t, a, e, "Carol", 1)
        \/ AcceptInviteSave(p, TRUE)
        \/ Tick

SpecMembers == InitInvite /\ [][NextMembers]_vars

\* emails of reset and resend requests: Globex's owner, whom Acme's owner may invite to Acme
\* as well, the pending member of Acme, and the owner of a new organization
MailEmails == {"b@x", "e@x", "i@x"}

\* the operations that hand a link to the notifier, with the store and the mail server
\* failing or not: sign-up, invitation (and its acceptance), resend, forgotten password
NextMail ==
    \E p \in Procs :
        \/ Login(p, 1, "a@x", 1)
        \/ /\ UserBudget(MaxIds) /\ TokenBudget(MaxIds + 1)
           /\ \E s \in sessions : InviteUserBegin(p, s, "Bob", "b@x", "member")
        \/ InviteUserExist(p)
        \/ \E ok \in BOOLEAN, mailOk \in BOOLEAN : InviteUserCreate(p, ok, mailOk)
        \/ \E t \in LiveTokens : AcceptInviteBegin(p, t, 1, "b@x", "Bob", 1)
        \/ AcceptInviteSave(p, TRUE)
        \/ /\ OrgBudget(MaxOrgs + 1) /\ UserBudget(MaxIds) /\ TokenBudget(MaxIds + 1)
           /\ SignUpBegin(p, "Initech", "Irene", "i@x", 1)
        \/ SignUpNameCheck(p)
        \/ SignUpReadMax(p)
        \/ SignUpInsertOrg(p)
        \/ SignUpInsertUser(p, TRUE)
        \/ \E mailOk \in BOOLEAN : SignUpCommit(p, mailOk)
        \/ SignUpFail(p)
        \/ /\ TokenBudget(MaxIds + 1)
           /\ \E a \in AccountIds, e \in MailEmails, mailOk \in BOOLEAN :
                 ResendVerificationEmailBegin(p, a, e, mailOk)
        \/ \E tokOk \in BOOLEAN, ok \in BOOLEAN, mailOk \in BOOLEAN :
              ResendVerificationEmailSave(p, tokOk, ok, mailOk)
        \/ /\ TokenBudget(MaxIds + 1)
           /\ \E a \in AccountIds, e \in MailEmails : ForgotPasswordBegin(p, e, a)
        \/ \E ok \in BOOLEAN, mailOk \in BOOLEAN : ForgotPasswordUpdate(p, ok, mailOk)
        \/ Tick

SpecMail == InitInvite /\ [][NextMail]_vars

\* an operator of the platform suspends a user (users.status: pending / active / suspended);
\* no handler of the service writes this status
Suspend(id) ==
    /\ \E u \in users : u.id = id /\ u.status = "active"
    /\ users' = SaveUser([UserById(id) EXCEPT !.status = "suspended"])
    /\ UNCHANGED <<orgs, proc, sessions, now, nextTok, rotations, revoked, redeemed>>

\* the tokens ForgotPassword has issued since InitInvite, as far as redemptions are counted
ResetTokens == {t \in Tokens : t >= 5 /\ t < nextTok}

\* the credentials of Acme's maintainer m@x: logins, reset links asked for twice, resets by
\* link and with the old password, the store failing or not, and the maintainer's suspension
NextReset ==
    \E p \in Procs :
        \/ \E pw \in Passwords : Login(p, 1, "m@x", pw)
        \/ TokenBudget(MaxIds + 1) /\ ForgotPasswordBegin(p, "m@x", 1)
        \/ ForgotPasswordUpdate(p, TRUE, TRUE)
        \/ /\ RotationBudget(MaxRotations)
           /\ \E t \in ResetTokens : ResetPasswordByEmailBegin(p, t, 2)
        \/ \E ok \in BOOLEAN : ResetPasswordByEmailSave(p, ok)
        \/ /\ RotationBudget(MaxRotations)
           /\ \E s \in sessions, pw \in Passwords : ResetPasswordBegin(p, s, pw, 2)
        \/ ResetPasswordRead(p)
        \/ \E ok \in BOOLEAN : ResetPasswordSave(p, ok)
        \/ Suspend(2)
        \/ Tick

SpecReset == InitInvite /\ [][NextReset]_vars

\* sign-ups through the handler, with passwords of eight characters and of fewer
NextSignUpInput ==
    \E p \in Procs :
        \/ /\ OrgBudget(MaxOrgs) /\ UserBudget(MaxUsers) /\ TokenBudget(MaxTokens)
           /\ \E n \in OrgNames, e \in {"a@x", "b@x"}, pw \in {1, ShortPassword} :
                 SignUpHandler(p, n, "Alice", e, pw)
        \/ SignUpNameCheck(p)
        \/ SignUpReadMax(p)
        \/ SignUpInsertOrg(p)
        \/ SignUpInsertUser(p, TRUE)
        \/ SignUpCommit(p, TRUE)
        \/ SignUpFail(p)

SpecSignUpInput == Init /\ [][NextSignUpInput]_vars

----------------------------------------------------------------------------
(* Properties                                                              *)

OwnerOf(o) == {u \in users : u.org = o.id /\ u.role = "owner"}

\* C1: after any interleaving of concurrent SignUp calls, no two persisted
\* organizations have the same account_id.
AccountIdsDistinct ==
    \A o1 \in orgs : \A o2 \in orgs : o1.id # o2.id => o1.account_id # o2.account_id

\* C1 witness: two organizations are persisted and a concurrent SignUp that had read
\* the same MAX(account_id) was refused by the store.
TwoOrgsAfterCollision ==
    /\ Cardinality(orgs) >= 2
    /\ \E p \in Procs : proc[p].op = "SignUp" /\ proc[p].res = "account_id_taken"

\* C2: SignUp allocates account_id atomically: no SignUp fails on an account_id that a
\* concurrent SignUp with another organization name and another owner email obtained.
NoAccountIdCollision ==
    \A p \in Procs :
        (proc[p].op = "SignUp" /\ proc[p].pc = "done" /\ proc[p].res = "account_id_taken")
        => ~ \E o \in orgs : /\ o.account_id = proc[p].acct
                             /\ o.name # proc[p].name
                             /\ \A u \in OwnerOf(o) : u.email # proc[p].email

\* C3: SignUp is all-or-nothing: a SignUp one of whose steps failed reports an error
\* and persists nothing, and no organization is observable without its owner user,
\* nor an owner user without its organization.
SignUpAllOrNothing ==
    /\ \A p \in Procs :
          (proc[p].op = "SignUp" /\ proc[p].pc = "done" /\ proc[p].failed)
          => proc[p].res # "ok"
    /\ \A o \in orgs : \E u \in users : u.id = o.created_by /\ u.org = o.id /\ u.role = "owner"
    /\ \A u \in users : u.role = "owner" => \E o \in orgs : o.id = u.org /\ o.created_by = u.id

\* C4: validateJWT of a correctly signed session succeeds if and only if the session is
\* not past its expiry, the referenced user is active, and the token version of the
\* claims equals the user's current token_version.
SessionValidIff ==
    \A s \in sessions :
        (validateJWT(s) = "ok")
        <=> /\ now < s.exp
            /\ \E u \in users : u.id = s.uid /\ u.status = "active" /\ u.tv = s.tv

\* C4 witness: an unexpired session of an active user is refused because the user's
\* token_version has moved on, and a request carrying it was turned away.
StaleSessionRefused ==
    /\ \E s \in sessions : validateJWT(s) = "stale"
    /\ \E p \in Procs : proc[p].pc = "done" /\ proc[p].res = "unauthorized"

\* C5: every session issued by Login before a successful password rotation of the same
\* user fails session verification at every point after that rotation.
RevokedSessionsStayInvalid ==
    \A s \in revoked : validateJWT(s) # "ok"

\* C6: token_version starts at 1 and after k successful rotations of a user it is 1 + k.
TokenVersionCountsRotations ==
    \A u \in users : u.tv = InitialTokenVersion + rotations[u.id]

\* C10: every issued token is single-use: at most one invocation of VerifyAccount,
\* AcceptInvite or ResetPasswordByEmail succeeds with a given token.
TokenSingleUse ==
    \A t \in Tokens : redeemed[t] <= 1

\* C7: InviteUser passes its role check if and only if (inviter role, target role) is one
\* of (owner, maintainer), (owner, member), (maintainer, member); every other pair over
\* owner, maintainer, member is refused, and no user exists that was created by an
\* invitation outside these pairs.
InviteRoleTable ==
    LET Allowed == {<<"owner", "maintainer">>, <<"owner", "member">>, <<"maintainer", "member">>}
    IN /\ \A p \in Procs :
            (proc[p].op = "InviteUser" /\ proc[p].res # "unauthorized")
            => (      \/ proc[p].pc \in {"iv_exist", "iv_create"}
                      \/ proc[p].pc = "done" /\ proc[p].res \notin {"forbidden", "role_refused"}
                <=> <<proc[p].sess.role, proc[p].role>> \in Allowed)
       /\ \A u \in users :
            u.invited_by # NullId
            => \E i \in users : i.id = u.invited_by /\ <<i.role, u.role>> \in Allowed

\* C7 witness: the same owner has invited a member or maintainer with success and has been
\* refused the invitation of an owner.
OwnerInvitedAndRefused ==
    /\ \E p \in Procs : /\ proc[p].op = "InviteUser" /\ proc[p].res = "ok"
                        /\ proc[p].sess.role = "owner"
    /\ \E q \in Procs : /\ proc[q].op = "InviteUser" /\ proc[q].res = "role_refused"
                        /\ proc[q].sess.role = "owner" /\ proc[q].role = "owner"

\* C8: in every reachable state each persisted organization has exactly one user with role
\* owner, and no step of any operation changes the role of a user.
OneOwnerPerOrg ==
    /\ [](\A o \in orgs : Cardinality(OwnerOf(o)) = 1)
    /\ [][\A u \in users : \A v \in users' : v.id = u.id => v.role = u.role]_vars

\* C8 witness: a SignUp has added a third organization while an invitation for the role
\* owner stands refused.
SignedUpBesideRefusedOwnerInvite ==
    /\ \E o \in orgs : o.name = "Initech"
    /\ \E p \in Procs : proc[p].op = "SignUp" /\ proc[p].res = "ok"
    /\ \E q \in Procs : /\ proc[q].op = "InviteUser" /\ proc[q].role = "owner"
                        /\ proc[q].res = "role_refused"

\* C9: AcceptInvite goes on to activate a user only when token, email and organization
\* account id all match that same user, its Save rewrites no other user, and an AcceptInvite
\* that did not match changes nothing in the store.
AcceptInviteScoped ==
    [][\A p \in Procs :
         /\ (proc[p].pc # "ai_save" /\ proc'[p].pc = "ai_save")
            => /\ proc'[p].u \in users
               /\ proc'[p].u.token = proc'[p].tok
               /\ proc'[p].u.email = proc'[p].email
               /\ OrgById(proc'[p].u.org).account_id = proc'[p].acct
         /\ (proc[p].pc = "ai_save" /\ proc'[p].pc = "done")
            => \A u \in users : u.id # proc[p].u.id => u \in users'
         /\ (proc[p] # proc'[p] /\ proc'[p].op = "AcceptInvite" /\ proc[p].pc # "ai_save")
            => users' = users /\ orgs' = orgs
    ]_vars

\* C9 witness: the token and email of a pending invitation were presented with the account
\* id of another organization and refused, the invitation still pending.
InviteRefusedForOtherAccount ==
    \E p \in Procs :
        /\ proc[p].op = "AcceptInvite" /\ proc[p].pc = "done" /\ proc[p].res = "invalid_invite"
        /\ \E u \in users : /\ u.token = proc[p].tok /\ u.email = proc[p].email
                            /\ u.status = "pending"
                            /\ OrgById(u.org).account_id # proc[p].acct

\* C11: once a VerifyAccount has succeeded with the token of a SignUp, a second
\* VerifyAccount with the same token fails with AlreadyVerified.
SecondVerifyAlreadyVerified ==
    [][\A p \in Procs : \A q \in Procs :
         (/\ p # q
          /\ proc[q].op = "VerifyAccount" /\ proc[q].pc = "done" /\ proc[q].res = "ok"
          /\ Free(p) /\ proc'[p] # proc[p]
          /\ proc'[p].op = "VerifyAccount" /\ proc'[p].tok = proc[q].tok
          /\ proc[q].tok \in 1..MaxIds)
         => (proc'[p].pc = "done" /\ proc'[p].res = "already_verified")
    ]_vars

\* C12: VerifyAccount activates an owner and its organization atomically: no state shows
\* an owner active while its organization is still pending.
OwnerAndOrgActivatedTogether ==
    \A u \in users :
        (u.role = "owner" /\ u.status = "active")
        => \A o \in orgs : o.id = u.org => o.status = "active"

\* C13: in every reachable state an organization has status active only if its owner
\* user has status active.
ActiveOrgHasActiveOwner ==
    \A o \in orgs :
        o.status = "active" => \A u \in OwnerOf(o) : u.status = "active"

\* C14: after a first successful AcceptInvite, a second AcceptInvite with the same token,
\* email and account id fails with Conflict (user already active).
SecondAcceptConflict ==
    [][\A p \in Procs : \A q \in Procs :
         (/\ p # q
          /\ proc[q].op = "AcceptInvite" /\ proc[q].pc = "done" /\ proc[q].res = "ok"
          /\ Free(p) /\ proc'[p] # proc[p]
          /\ proc'[p].op = "AcceptInvite" /\ proc'[p].tok = proc[q].tok
          /\ proc'[p].email = proc[q].email /\ proc'[p].acct = proc[q].acct)
         => (proc'[p].pc = "done" /\ proc'[p].res = "already_active")
    ]_vars

\* C15: Login issues a session only for a user whose status is active: it succeeds if and
\* only if the user of that email in the organization of that account id is active and the
\* password is the user's, so an invited user cannot log in with any password before
\* AcceptInvite and can with the password given to AcceptInvite after it.
LoginOnlyActive ==
    [][\A p \in Procs :
         (Free(p) /\ proc'[p] # proc[p] /\ proc'[p].op = "Login")
         => LET r == proc'[p]
                matching == {u \in users : /\ u.email = r.email
                                           /\ \E o \in orgs : /\ o.id = u.org
                                                              /\ o.account_id = r.acct}
            IN /\ r.res = "ok"
                  <=> \E u \in matching : u.status = "active" /\ u.password = Hash(r.pw)
               /\ r.res = "ok"
                  => /\ r.sess \in sessions'
                     /\ \E u \in matching : u.id = r.sess.uid /\ u.status = "active"
               /\ r.res # "ok" => sessions' = sessions
    ]_vars

\* C15 witness: the invited member e@x has accepted the invitation and has logged in with
\* the password given to AcceptInvite.
InvitedMemberLoggedIn ==
    /\ \E q \in Procs : /\ proc[q].op = "AcceptInvite" /\ proc[q].res = "ok"
                        /\ proc[q].email = "e@x"
    /\ \E p \in Procs : /\ proc[p].op = "Login" /\ proc[p].res = "ok"
                        /\ proc[p].email = "e@x" /\ proc[p].pw = 1
                        /\ \E u \in users : /\ u.id = proc[p].sess.uid /\ u.email = "e@x"
                                            /\ u.invited_by # NullId

\* C16: no two organizations ever have the same name, also when two SignUp calls with the
\* same name run concurrently.
OrgNamesDistinct ==
    \A o1 \in orgs : \A o2 \in orgs : o1.id # o2.id => o1.name # o2.name

\* C17: in every reachable state no two users of the same organization have emails that
\* are equal ignoring letter case.
OrgEmailsDistinctIgnoringCase ==
    \A u1 \in users : \A u2 \in users :
        (u1.id # u2.id /\ u1.org = u2.org) => Lower(u1.email) # Lower(u2.email)

\* C18: in every reachable state no two users with role owner have the same email ignoring
\* case, and a SignUp refused because its email belongs to an existing owner persists
\* neither an organization nor a user.
OwnerEmailsDistinct ==
    /\ [](\A u1 \in users : \A u2 \in users :
            (u1.id # u2.id /\ u1.role = "owner" /\ u2.role = "owner")
            => Lower(u1.email) # Lower(u2.email))
    /\ [][\A p \in Procs :
            (proc[p].pc \in SignUpPcs /\ proc'[p].pc = "done"
                /\ proc'[p].res = "owner_email_taken")
            => /\ orgs' = orgs /\ users' = users
               /\ \E u \in users : /\ u.role = "owner"
                                   /\ Lower(u.email) = Lower(proc[p].email)]_vars

\* C18 witness: a SignUp with the email A@x was refused while a@x is the email of an owner,
\* and no organization of the refused name exists.
SignUpRefusedForOwnerEmail ==
    \E p \in Procs :
        /\ proc[p].op = "SignUp" /\ proc[p].res = "owner_email_taken"
        /\ proc[p].email = "A@x"
        /\ \E u \in users : u.role = "owner" /\ u.email = "a@x"
        /\ ~ \E o \in orgs : o.name = proc[p].name

\* C19: a successful SignUp adds one organization with status pending and the allocated
\* account_id and one user of it with role owner, status pending, invite_token and
\* expires_at set and token_version 1; created_by of the organization is the id of that
\* owner and the token returned to the caller is the stored invite_token.
SignUpPersists ==
    [][\A p \in Procs :
         (proc[p].pc = "su_commit" /\ proc'[p].pc = "done" /\ proc'[p].res = "ok")
         => \E o \in orgs' \ orgs : \E u \in users' \ users :
               /\ orgs' = orgs \cup {o} /\ users' = users \cup {u}
               /\ o.status = "pending" /\ o.account_id = proc[p].acct
               /\ o.name = proc[p].name /\ o.created_by = u.id
               /\ u.org = o.id /\ u.role = "owner" /\ u.status = "pending"
               /\ u.email = proc[p].email
               /\ u.token # NullToken /\ u.expires # NullTime
               /\ u.tv = 1
               /\ proc'[p].tok = u.token
    ]_vars

\* C19 witness: a SignUp has returned a token and the pending owner of a pending
\* organization holds it.
SignedUpWithToken ==
    \E p \in Procs :
        /\ proc[p].op = "SignUp" /\ proc[p].res = "ok" /\ proc[p].tok \in 1..MaxIds
        /\ \E o \in orgs : \E u \in users :
              /\ o.account_id = proc[p].acct /\ o.status = "pending" /\ o.created_by = u.id
              /\ u.org = o.id /\ u.status = "pending" /\ u.token = proc[p].tok

\* C20: InviteUser for an (organization, email) that already has a user fails with the
\* conflict of an active user (already a member) or of a pending one (already invited),
\* leaves every user as it is and creates none.
InviteExistingConflict ==
    [][\A p \in Procs :
         (proc[p].pc = "iv_exist" /\ proc'[p] # proc[p])
         => LET existing == {u \in users : /\ u.org = proc[p].sess.org
                                           /\ u.email = proc[p].email}
            IN existing # {}
               => /\ proc'[p].pc = "done"
                  /\ proc'[p].res = IF \E u \in existing : u.status = "active"
                                    THEN "already_active" ELSE "already_invited"
                  /\ users' = users
    ]_vars

\* C20 witness: an invitation for the email of a pending invitation was refused, the
\* pending user still holding its token and its temporary password.
ReinviteRefused ==
    \E p \in Procs :
        /\ proc[p].op = "InviteUser" /\ proc[p].res = "already_invited"
        /\ \E u \in users : /\ u.email = "e@x" /\ u.status = "pending"
                            /\ u.token \in LiveTokens /\ u.expires = InviteTTL
                            /\ u.password = Hash(TempPassword)
        /\ Cardinality({u \in users : u.email = "e@x"}) = 1

\* C21: a successful InviteUser creates exactly one new user, in the inviter's organization,
\* with the requested role, status pending, invited_by the inviter's id, invite_token and
\* expires_at set and the hash of a temporary password; it changes no other user and no
\* organization.
InviteCreatesOneUser ==
    [][\A p \in Procs :
         (proc[p].pc = "iv_create" /\ proc'[p].pc = "done" /\ proc'[p].res = "ok")
         => /\ \E u \in users' \ users :
                 /\ users' = users \cup {u}
                 /\ \A v \in users : v.id # u.id
                 /\ u.org = proc[p].sess.org
                 /\ \E i \in users : i.id = proc[p].sess.uid /\ i.org = u.org
                 /\ u.invited_by = proc[p].sess.uid
                 /\ u.role = proc[p].role /\ u.email = proc[p].email
                 /\ u.status = "pending"
                 /\ u.token \notin {NullToken, EmptyToken}
                 /\ \A v \in users : v.token # u.token
                 /\ u.expires = proc[p].exp /\ u.expires # NullTime
                 /\ u.password = Hash(TempPassword)
            /\ orgs' = orgs
    ]_vars

\* C21 witness: the maintainer of Acme has invited c@x as a member, who is pending with a
\* token beside the four earlier users.
MaintainerInvitedMember ==
    /\ \E p \in Procs : /\ proc[p].op = "InviteUser" /\ proc[p].res = "ok"
                        /\ proc[p].sess.role = "maintainer"
    /\ \E u \in users : /\ u.email = "c@x" /\ u.status = "pending" /\ u.role = "member"
                        /\ u.invited_by = 2 /\ u.org = 1 /\ u.token \in LiveTokens
    /\ Cardinality(users) = 5

\* C22: a successful AcceptInvite sets the user's name and password hash from the request,
\* sets status to active and clears invite_token and expires_at; it leaves the user's role,
\* organization, invited_by and token_version unchanged and changes no other user.
AcceptInviteFrame ==
    [][\A p \in Procs :
         (proc[p].pc = "ai_save" /\ proc'[p].pc = "done" /\ proc'[p].res = "ok")
         => \E u \in users : \E v \in users' :
               /\ u.id = proc[p].u.id /\ v.id = u.id
               /\ v.name = proc[p].name /\ v.password = Hash(proc[p].pw)
               /\ v.status = "active" /\ v.token = NullToken /\ v.expires = NullTime
               /\ v.role = u.role /\ v.org = u.org /\ v.invited_by = u.invited_by
               /\ v.tv = u.tv
               /\ users' \ {v} = users \ {u}
    ]_vars

\* C23: Login fails with the same generic Unauthorized outcome whether the account id is
\* unknown, the email is unknown in that organization, the user is not active or the
\* password is wrong: the responses of any two failed logins are the same.
LoginFailuresIndistinguishable ==
    \A p \in Procs : \A q \in Procs :
        (/\ proc[p].op = "Login" /\ proc[p].pc = "done" /\ proc[p].res # "ok"
         /\ proc[q].op = "Login" /\ proc[q].pc = "done" /\ proc[q].res # "ok")
        => LoginResponse(proc[p]) = LoginResponse(proc[q])

\* C24: RoleAuthorization lets a request with verified claims through if and only if the
\* role of the claims is in the allowed-role set of the route, and rejects it as Forbidden
\* otherwise, whatever else the request carries.
RoleGate ==
    [][\A p \in Procs :
         (/\ Free(p) /\ proc'[p] # proc[p] /\ proc'[p].op = "InviteUser"
          /\ proc'[p].res # "unauthorized")
         => /\ (proc'[p].pc = "done" /\ proc'[p].res = "forbidden")
               <=> proc'[p].sess.role \notin InviteAllowedRoles
            /\ proc'[p].sess.role \in InviteAllowedRoles
               => \/ proc'[p].pc = "iv_exist"
                  \/ proc'[p].pc = "done" /\ proc'[p].res = "role_refused"
    ]_vars

\* C24 witness: the invitation of a logged-in member was rejected as Forbidden.
MemberForbiddenToInvite ==
    \E p \in Procs :
        /\ proc[p].op = "InviteUser" /\ proc[p].pc = "done" /\ proc[p].res = "forbidden"
        /\ proc[p].sess.role = "member"
        /\ \E s \in sessions : s.role = "member" /\ validateJWT(s) = "ok"

\* C25: in every reachable state, for every user, invite_token is null if and only if
\* expires_at is null; so every user ResetPasswordByEmail finds by a token has an expiry
\* when the handler reads it.
TokenExpiryPaired ==
    /\ \A u \in users : (u.token = NullToken) <=> (u.expires = NullTime)
    /\ \A p \in Procs :
          proc[p].op = "ResetPasswordByEmail"
          => /\ proc[p].res # "panic"
             /\ proc[p].pc = "rb_save" => proc[p].u.expires # NullTime

\* C25 witness: ResetPasswordByEmail has read, by the token of a ForgotPassword, an active
\* user with an expiry, beside users that hold neither token nor expiry.
ResetReadsExpiry ==
    \E p \in Procs :
        /\ proc[p].pc = "rb_save" /\ proc[p].u.status = "active"
        /\ proc[p].u.token = proc[p].tok /\ proc[p].u.expires = HourTTL
        /\ \E u \in users : u.token = NullToken /\ u.expires = NullTime
        /\ \E q \in Procs : proc[q].op = "ForgotPassword" /\ proc[q].mailed = proc[p].tok

\* C26: in every reachable state a user's invite_token is non-null if and only if the user
\* is pending; no active user holds a non-null invite_token.
TokenIffPending ==
    \A u \in users : (u.token # NullToken) <=> (u.status = "pending")

\* C27: ResendVerificationEmail for a pending user identified by (account id, email)
\* replaces token and expiry with a fresh pair when the stored token is missing or expired
\* and leaves them unchanged otherwise; in both cases it sends the notifier exactly the token
\* now stored and leaves the status pending; when no pending user matches it fails without
\* changing anything or sending anything.
ResendTokenRule ==
    [][\A p \in Procs :
         /\ (Free(p) /\ proc'[p] # proc[p] /\ proc'[p].op = "ResendVerificationEmail")
            => LET matching == {u \in users :
                                  /\ u.email = proc'[p].email /\ u.status = "pending"
                                  /\ \E o \in orgs : /\ o.id = u.org
                                                     /\ o.account_id = proc'[p].acct}
                   Stale(u) == u.token = NullToken \/ u.expires = NullTime \/ now > u.expires
               IN /\ users' = users
                  /\ matching = {}
                     => /\ proc'[p].pc = "done" /\ proc'[p].res \notin {"ok", "email_failed"}
                        /\ proc'[p].mailed = NullToken
                  /\ matching # {}
                     => \E u \in matching :
                          IF Stale(u)
                          THEN proc'[p].pc = "rv_save" /\ proc'[p].u = u
                          ELSE proc'[p].pc = "done" /\ proc'[p].mailed = u.token
         /\ (proc[p].pc = "rv_save" /\ proc'[p].pc = "done")
            => IF proc'[p].res = "error"
               THEN users' = users /\ proc'[p].mailed = NullToken
               ELSE \E v \in users' :
                      /\ v.id = proc[p].u.id
                      /\ v.token \notin {NullToken, EmptyToken}
                      /\ \A u \in users : u.token # v.token
                      /\ v.expires = now + HourTTL
                      /\ v.status = "pending"
                      /\ proc'[p].mailed = v.token
                      /\ \A u \in users : u.id # v.id => u \in users'
    ]_vars

\* C28: a failure of the notifier never fails the operation that triggered it: a SignUp,
\* InviteUser, ResendVerificationEmail or ForgotPassword whose store mutation succeeded and
\* whose email send failed still returns success.
NotifierFailureNotSurfaced ==
    [][\A p \in Procs :
         (/\ proc'[p] # proc[p] /\ proc'[p].pc = "done"
          /\ proc'[p].op \in {"SignUp", "InviteUser", "ResendVerificationEmail",
                              "ForgotPassword"}
          /\ users' # users /\ proc'[p].mailfail)
         => /\ proc'[p].res = "ok"
            /\ \E u \in users' \ users : u.token = proc'[p].mailed
    ]_vars

\* C29: a notification is dispatched only after the store mutation of its operation has been
\* committed: a SignUp, InviteUser or ForgotPassword that sends a mail has written the user
\* holding the mailed token, and one whose write failed or was rolled back sends none.
MailOnlyAfterCommit ==
    [][\A p \in Procs :
         (/\ proc'[p] # proc[p] /\ proc'[p].pc = "done"
          /\ proc'[p].op \in {"SignUp", "InviteUser", "ForgotPassword"})
         => IF proc'[p].mailed # NullToken
            THEN /\ proc'[p].res = IF proc'[p].mailfail /\ proc'[p].op = "ForgotPassword"
                                   THEN "email_failed" ELSE "ok"
                 /\ \E u \in users' \ users : u.token = proc'[p].mailed
            ELSE /\ proc'[p].res \notin {"ok", "email_failed"}
                 /\ users' = users /\ orgs' = orgs
    ]_vars

\* C29 witness: a SignUp whose transaction was rolled back has sent no mail, while a
\* ForgotPassword has mailed the token it stored.
RolledBackSignUpSentNothing ==
    /\ \E p \in Procs : /\ proc[p].op = "SignUp" /\ proc[p].res = "error"
                        /\ proc[p].mailed = NullToken
    /\ \E q \in Procs : /\ proc[q].op = "ForgotPassword" /\ proc[q].res = "ok"
                        /\ \E u \in users : u.token = proc[q].mailed
    /\ ~ \E o \in orgs : o.name = "Initech"

\* C30: ForgotPassword(email, accountScope) sets a fresh token and expiry only on the active
\* user with that email in the organization of accountScope; when there is none it fails and
\* changes nothing; it never changes a status, password hash or token_version, and never
\* touches a user of another organization who has the same email.
ForgotPasswordScoped ==
    [][\A p \in Procs :
         /\ (Free(p) /\ proc'[p] # proc[p] /\ proc'[p].op = "ForgotPassword")
            => /\ users' = users
               /\ IF proc'[p].pc = "fp_update"
                  THEN /\ proc'[p].u \in users
                       /\ proc'[p].u.email = proc'[p].email
                       /\ proc'[p].u.status = "active"
                       /\ OrgById(proc'[p].u.org).account_id = proc'[p].acct
                  ELSE /\ proc'[p].pc = "done" /\ proc'[p].res = "not_found"
                       /\ proc'[p].mailed = NullToken
         /\ (proc[p].pc = "fp_update" /\ proc'[p] # proc[p])
            => /\ \A v \in users : \E w \in users' :
                     /\ w.id = v.id /\ w.status = v.status /\ w.password = v.password
                     /\ w.tv = v.tv
                     /\ v.id # proc[p].u.id => w = v
               /\ Cardinality(users') = Cardinality(users)
               /\ IF proc'[p].res = "error" THEN users' = users
                  ELSE \E w \in users' :
                         /\ w.id = proc[p].u.id
                         /\ w.token \notin {NullToken, EmptyToken}
                         /\ \A v \in users : v.token # w.token
                         /\ w.expires = now + HourTTL
    ]_vars

\* C30 witness: b@x is an active user of Acme and of Globex, and a ForgotPassword has put its
\* token on one of the two while the other holds none.
ForgotTouchedOneOfTwo ==
    \E p \in Procs :
        /\ proc[p].op = "ForgotPassword" /\ proc[p].res = "ok"
        /\ \E u \in users : \E v \in users :
              /\ u.email = "b@x" /\ v.email = "b@x" /\ u.org # v.org
              /\ u.status = "active" /\ v.status = "active"
              /\ u.token = proc[p].mailed /\ u.expires # NullTime
              /\ v.token = NullToken /\ v.expires = NullTime

\* C31: ResetPasswordByEmail with an unexpired token stores the new hash, adds one to
\* token_version, clears token and expiry and makes the user active only if the user was
\* pending (a suspended user stays suspended); with an unknown or expired token it fails
\* and no user changes.
ResetByEmailEffect ==
    [][\A p \in Procs :
          /\ (Free(p) /\ proc'[p].op = "ResetPasswordByEmail" /\ proc'[p] # proc[p]) =>
                /\ proc'[p].pc = "rb_save" <=>
                      \E u \in users : u.token = proc'[p].tok /\ u.expires >= now
                /\ users' = users
          /\ (proc[p].pc = "rb_save" /\ proc'[p].pc = "done") =>
                IF proc'[p].res = "ok"
                THEN \E u \in users, v \in users' :
                        /\ u.id = proc[p].u.id /\ v.id = u.id
                        /\ v = [u EXCEPT !.password = Hash(proc[p].npw), !.tv = u.tv + 1,
                                         !.token = NullToken, !.expires = NullTime,
                                         !.status = IF u.status = "pending" THEN "active"
                                                    ELSE u.status]
                        /\ users' = (users \ {u}) \cup {v}
                ELSE users' = users]_vars

\* the old password given is the one of the stored hash
OldPasswordMatches(p) ==
    \E u \in users : /\ u.id = proc[p].sess.uid /\ u.status = "active"
                     /\ CompareHashAndPassword(u.password, proc[p].pw)

\* C32: the authenticated ResetPassword goes on to its write only when the user of the
\* claims is active and the old password verifies against the stored hash; otherwise it
\* fails and no user changes. Its successful write stores the hash of the new password
\* and the token_version it read plus one; a failed write changes no user.
ResetPasswordGuarded ==
    [][\A p \in Procs :
          /\ (proc[p].pc = "rp_read" /\ proc'[p] # proc[p]) =>
                /\ proc'[p].pc = "rp_save" <=> OldPasswordMatches(p)
                /\ proc'[p].pc # "rp_save" =>
                      /\ proc'[p].pc = "done"
                      /\ proc'[p].res \in {"user_not_found", "not_active",
                                           "old_password_incorrect"}
                /\ users' = users
          /\ (proc[p].pc = "rp_save" /\ proc'[p].pc = "done") =>
                IF proc'[p].res = "ok"
                THEN \E v \in users' : /\ v.id = proc[p].u.id
                                       /\ v.password = Hash(proc[p].npw)
                                       /\ v.tv = proc[p].u.tv + 1
                ELSE users' = users
          /\ (\E u \in users, v \in users' :
                 /\ u.id = v.id /\ (u.password # v.password \/ u.tv # v.tv)
                 /\ proc[p].op = "ResetPassword" /\ proc'[p] # proc[p]) =>
                proc[p].pc = "rp_save" /\ proc'[p].res = "ok"]_vars

\* a wrong old password was refused and m@x still has the first hash and token_version
WrongOldPasswordRefused ==
    \E p \in Procs :
        /\ proc[p].op = "ResetPassword" /\ proc[p].res = "old_password_incorrect"
        /\ \E s \in sessions : s.uid = 2
        /\ \A u \in users : u.id = 2 =>
              u.password = Hash(1) /\ u.tv = InitialTokenVersion

\* C37: once ForgotPassword has succeeded again for the user, a reset with a token an
\* earlier ForgotPassword had issued is refused as an invalid token.
OnlyLatestResetToken ==
    [][\A p, q \in Procs :
          (/\ Free(p) /\ proc'[p].op = "ResetPasswordByEmail" /\ proc'[p] # proc[p]
           /\ proc[q].op = "ForgotPassword" /\ proc[q].pc = "done" /\ proc[q].res = "ok"
           /\ proc'[p].tok \in ResetTokens /\ proc'[p].tok < proc[q].mailed)
          => (proc'[p].pc = "done" /\ proc'[p].res = "invalid_token")]_vars

\* C34: an active owner belongs to an active organization: whenever no VerifyAccount of
\* the owner is between its two writes, the organization of every active owner is active.
ActiveOwnerHasActiveOrg ==
    \A u \in users :
        (/\ u.role = "owner" /\ u.status = "active"
         /\ ~ \E p \in Procs : /\ proc[p].pc \in {"va_org", "va_orgsave"}
                               /\ proc[p].u.id = u.id)
        => \E o \in orgs : o.id = u.org /\ o.status = "active"

\* C35: a user created by InviteUser is never active while the stored password is still
\* the hash of the temporary password.
InviteeNeverActiveWithTempPassword ==
    \A u \in users :
        (u.invited_by # NullId /\ u.status = "active") => u.password # Hash(TempPassword)

\* C36: a VerifyAccount or AcceptInvite refused at its checks (unknown token, expired
\* token, user already active) leaves every user and organization as it was; the user of an
\* expired token keeps that token, its expiry and its status. Neither goes on to its write
\* unless a user holds the token, is not active and the token has not expired.
RefusedRedeemFrame ==
    [][\A p \in Procs :
          (/\ Free(p) /\ proc'[p] # proc[p]
           /\ proc'[p].op \in {"VerifyAccount", "AcceptInvite"}) =>
             /\ proc'[p].pc \in {"va_save", "ai_save"} =>
                   \E u \in users : /\ u.token = proc'[p].tok
                                    /\ u.status # "active"
                                    /\ ~(now > u.expires)
             /\ proc'[p].pc = "done" =>
                   /\ proc'[p].res \in {"invalid_token", "already_verified", "expired",
                                        "invalid_invite", "already_active"}
                   /\ users' = users /\ orgs' = orgs
                   /\ proc'[p].res = "expired" =>
                         \E u \in users' : /\ u \in users
                                           /\ u.token = proc'[p].tok
                                           /\ u.expires < now]_vars

\* VerifyAccount refused the expired invite token of a user who is still pending with it
ExpiredTokenKept ==
    \E p \in Procs :
        /\ proc[p].op = "VerifyAccount" /\ proc[p].res = "expired"
        /\ \E u \in users : /\ u.token = proc[p].tok /\ u.status = "pending"
                            /\ u.expires # NullTime /\ u.expires < now

\* C38: every user with an inviter is no owner, and the inviter is a user of the same
\* organization whose role may invite the user's role; every owner has no inviter.
InviterPermitted ==
    \A u \in users :
        /\ u.invited_by # NullId =>
              /\ u.role # "owner"
              /\ \E i \in users : /\ i.id = u.invited_by /\ i.org = u.org
                                  /\ InviteRoleOk(i.role, u.role)
        /\ u.role = "owner" => u.invited_by = NullId

\* InviteUser has stored a maintainer whom the owner of the organization invited
OwnerInvitedMaintainer ==
    \E u, i \in users :
        /\ u.id > 4 /\ u.role = "maintainer" /\ u.invited_by = i.id
        /\ i.role = "owner" /\ i.org = u.org

\* the account id of the first organization of an empty store
FirstAccountID == <<1, 1, 0, 0, 0, 0, 0, 0, 0, 0, 0, 0, 0, 0, 0, 1>>

\* C39: every stored account id is written as 16 decimal digits that parse back to it, and
\* a SignUp that commits stores 1100000000000001 in an empty store and otherwise the
\* largest account id of the store plus one, which is also the account id it returns.
AccountIdSequence ==
    /\ [](\A o \in orgs :
             LET d == FormatAccountID(o.account_id)
             IN /\ Len(d) = 16
                /\ \A i \in 1..16 : d[i] \in 0..9
                /\ ParseAccountID(d) = o.account_id)
    /\ [][\A p \in Procs :
             (proc[p].pc = "su_commit" /\ proc'[p].pc = "done" /\ proc'[p].res = "ok") =>
                \E o \in orgs' \ orgs :
                   /\ orgs' = orgs \cup {o}
                   /\ proc'[p].acct = o.account_id
                   /\ IF orgs = {}
                      THEN FormatAccountID(o.account_id) = FirstAccountID
                      ELSE /\ \A x \in orgs : x.account_id < o.account_id
                           /\ \E x \in orgs : o.account_id = x.account_id + 1]_vars

\* a second SignUp has committed with the account id after the first one
SecondAccountIdFollows ==
    \E o1, o2 \in orgs :
        /\ FormatAccountID(o1.account_id) = FirstAccountID
        /\ FormatAccountID(o2.account_id) = <<1, 1, 0, 0, 0, 0, 0, 0, 0, 0, 0, 0, 0, 0, 0, 2>>

\* C33: a SignUp whose password has fewer than 8 characters does not succeed, and none of
\* its steps changes the organizations or the users.
WeakPasswordRefused ==
    /\ [](\A p \in Procs :
             (/\ proc[p].op = "SignUp" /\ proc[p].pc = "done"
              /\ PasswordLength(proc[p].pw) < MinPasswordLength) => proc[p].res # "ok")
    /\ [][\A p \in Procs :
             (/\ proc'[p].op = "SignUp" /\ proc'[p] # proc[p]
              /\ PasswordLength(proc'[p].pw) < MinPasswordLength)
             => (orgs' = orgs /\ users' = users)]_vars

====
